---- MODULE Spec2Model ----
(***************************************************************************)
(* A model of scripts/generate_benchmark_report.py: the BenchmarkAnalyzer   *)
(* (load_results, analyze_performance, generate_report, assess_performance, *)
(* save_summary) and main.                                                  *)
(*                                                                          *)
(* Numbers.  Every millisecond quantity read from a result file is held as  *)
(* an integer count of hundredths of a millisecond (16.67 ms is 1667), so   *)
(* that the targets of generate_report are exact.  A quotient computed by   *)
(* the program (the mean, the two FPS figures) is held as an exact fraction *)
(* [num, den]; floating point rounding is not modelled.  int(n * 0.95) and  *)
(* int(n * 0.99) on IEEE doubles agree with floor(95 n / 100) and           *)
(* floor(99 n / 100) for every n up to 200000 (enumerated), which is how    *)
(* the two indices are computed here.                                       *)
(*                                                                          *)
(* Exceptions.  A Python exception raised inside analyze_performance is the *)
(* one-key dictionary Raise(kind); a caller that receives it stops the      *)
(* process (pc = "crashed").                                                *)
(***************************************************************************)
EXTENDS Integers, Sequences, FiniteSets, TLC

VARIABLES
    fs,          \* the results directory: file name -> content
    dir_order,   \* the order in which the file system lists the directory
    pc,          \* where the current process is: idle, load, report, save, done, exited, crashed
    analyzer,    \* the BenchmarkAnalyzer: [results_dir, results]
    files,       \* load_results' local: the list glob.glob returned
    stdout,      \* what the current process has printed
    exit_code,   \* the exit status of the last process
    clock,       \* datetime.now(), one tick per process
    runs,        \* number of processes started so far
    arg,         \* analyze_performance's argument (function-level specification)
    ret,         \* analyze_performance's return value (function-level specification)
    step         \* position of the function-level specification

vars == <<fs, dir_order, pc, analyzer, files, stdout, exit_code, clock, runs, arg, ret, step>>

---------------------------------------------------------------------------
(* Bounds of the model *)

\* number of times the tool is started on the directory
MaxRuns == 2
\* longest generated frame_times sequence
MaxFrames == 102

---------------------------------------------------------------------------
(* Python values *)

\* {}
EmptyDict == [k \in {} |-> 0]

\* d.get(k, default)
Get(d, k, default) == IF k \in DOMAIN d THEN d[k] ELSE default

\* d[k] = v
SetItem(d, k, v) == (k :> v) @@ d

\* bool(d) for a dict
Truthy(d) == DOMAIN d # {}

\* an exception leaving analyze_performance
Raise(kind) == [exception |-> kind]

Raised(d) == "exception" \in DOMAIN d

\* whole.frac, two decimals, in hundredths
Hundredths(whole, frac) == whole * 100 + frac

\* a / b (true division); ok is FALSE for ZeroDivisionError
TrueDiv(a, b) ==
    IF b = 0 THEN [ok |-> FALSE, num |-> a, den |-> 0]
    ELSE IF b < 0 THEN [ok |-> TRUE, num |-> -a, den |-> -b]
    ELSE [ok |-> TRUE, num |-> a, den |-> b]

\* the literal 0 of "... else 0"
Zero == [ok |-> TRUE, num |-> 0, den |-> 1]

\* seq[i] with a 0-based index; ok is FALSE for IndexError
GetIndex(seq, i) ==
    IF i >= 0 /\ i < Len(seq) THEN [ok |-> TRUE, v |-> seq[i + 1]]
    ELSE [ok |-> FALSE, v |-> 0]

\* The built-ins fold a list by halves, which keeps the evaluation shallow.
RECURSIVE SumRange(_, _, _)
SumRange(xs, lo, hi) ==
    IF lo > hi THEN 0
    ELSE IF lo = hi THEN xs[lo]
    ELSE LET mid == (lo + hi) \div 2
         IN  SumRange(xs, lo, mid) + SumRange(xs, mid + 1, hi)

sum(xs) == SumRange(xs, 1, Len(xs))

RECURSIVE MinRange(_, _, _)
MinRange(xs, lo, hi) ==
    IF lo = hi THEN xs[lo]
    ELSE LET mid == (lo + hi) \div 2
             l == MinRange(xs, lo, mid)
             r == MinRange(xs, mid + 1, hi)
         IN  IF r < l THEN r ELSE l

\* min(xs) of a non-empty list
min(xs) == MinRange(xs, 1, Len(xs))

RECURSIVE MaxRange(_, _, _)
MaxRange(xs, lo, hi) ==
    IF lo = hi THEN xs[lo]
    ELSE LET mid == (lo + hi) \div 2
             l == MaxRange(xs, lo, mid)
             r == MaxRange(xs, mid + 1, hi)
         IN  IF r > l THEN r ELSE l

\* max(xs) of a non-empty list
max(xs) == MaxRange(xs, 1, Len(xs))

\* two ascending lists merged, the elements of a before equal elements of b
Merge(a, b) ==
    LET posA == [i \in 1..Len(a) |-> i + Cardinality({j \in 1..Len(b) : b[j] < a[i]})]
        posB == [j \in 1..Len(b) |-> j + Cardinality({i \in 1..Len(a) : a[i] <= b[j]})]
        fromA == {posA[i] : i \in 1..Len(a)}
    IN  [p \in 1..(Len(a) + Len(b)) |->
            IF p \in fromA THEN a[CHOOSE i \in 1..Len(a) : posA[i] = p]
            ELSE b[CHOOSE j \in 1..Len(b) : posB[j] = p]]

RECURSIVE MergeSort(_, _, _)
MergeSort(xs, lo, hi) ==
    IF lo > hi THEN <<>>
    ELSE IF lo = hi THEN <<xs[lo]>>
    ELSE LET mid == (lo + hi) \div 2
         IN  Merge(MergeSort(xs, lo, mid), MergeSort(xs, mid + 1, hi))

\* sorted(xs) with reverse=True
sorted_descending(xs) ==
    LET a == MergeSort(xs, 1, Len(xs)) IN [i \in 1..Len(a) |-> a[Len(a) + 1 - i]]

\* xs left as it is
sorted_missing(xs) == xs

\* sorted(xs): a new ascending list
sorted(xs) == MergeSort(xs, 1, Len(xs))

---------------------------------------------------------------------------
(* BenchmarkAnalyzer.analyze_performance *)

p95_index(sorted_times) == (Len(sorted_times) * 95) \div 100

\* the index rounded up instead of truncated
p99_index_ceil(sorted_times) == (Len(sorted_times) * 99 + 99) \div 100

p99_index(sorted_times) == (Len(sorted_times) * 99) \div 100

\* the guard written >= 0
avg_fps_guard_ge(avg_frame_time) ==
    IF avg_frame_time.num >= 0
    THEN TrueDiv(Hundredths(1000, 0) * avg_frame_time.den, avg_frame_time.num)
    ELSE Zero

\* 1000.0 / avg_frame_time if avg_frame_time > 0 else 0
avg_fps_of(avg_frame_time) ==
    IF avg_frame_time.num > 0
    THEN TrueDiv(Hundredths(1000, 0) * avg_frame_time.den, avg_frame_time.num)
    ELSE Zero

\* 1000.0 / max_frame_time if max_frame_time > 0 else 0
min_fps_of(max_frame_time) ==
    IF max_frame_time > 0 THEN TrueDiv(Hundredths(1000, 0), max_frame_time) ELSE Zero

\* lines 43-76: the statistics of a non-empty frame_times
statistics(metrics, frame_times) ==
    LET avg_frame_time == TrueDiv(sum(frame_times), Len(frame_times))
    IN  IF ~avg_frame_time.ok THEN Raise("ZeroDivisionError")
        ELSE
        LET min_frame_time == min(frame_times)
            max_frame_time == max(frame_times)
            sorted_times == sorted(frame_times)
            p95_frame_time == GetIndex(sorted_times, p95_index(sorted_times))
            p99_frame_time == GetIndex(sorted_times, p99_index(sorted_times))
            avg_fps == avg_fps_of(avg_frame_time)
            min_fps == min_fps_of(max_frame_time)
        IN  IF ~p95_frame_time.ok \/ ~p99_frame_time.ok THEN Raise("IndexError")
            ELSE IF ~avg_fps.ok \/ ~min_fps.ok THEN Raise("ZeroDivisionError")
            ELSE [avg_frame_time_ms |-> avg_frame_time,
                  min_frame_time_ms |-> min_frame_time,
                  max_frame_time_ms |-> max_frame_time,
                  p95_frame_time_ms |-> p95_frame_time.v,
                  p99_frame_time_ms |-> p99_frame_time.v,
                  avg_fps |-> avg_fps,
                  min_fps |-> min_fps,
                  frame_count |-> Len(frame_times),
                  gpu_culling_time_ms |-> Get(metrics, "gpu_culling_time_ms", 0),
                  batch_processing_time_ms |-> Get(metrics, "batch_processing_time_ms", 0),
                  lod_update_time_ms |-> Get(metrics, "lod_update_time_ms", 0),
                  streaming_time_ms |-> Get(metrics, "streaming_time_ms", 0),
                  visible_instances |-> Get(metrics, "visible_instances", 0),
                  culled_instances |-> Get(metrics, "culled_instances", 0),
                  batch_count |-> Get(metrics, "batch_count", 0),
                  memory_usage_mb |-> Get(metrics, "memory_usage_mb", 0)]

analyze_performance(result) ==
    LET metrics == Get(result, "metrics", EmptyDict)
        frame_times == Get(metrics, "frame_times", <<>>)
    IN  IF frame_times = <<>> THEN EmptyDict
        ELSE statistics(metrics, frame_times)

---------------------------------------------------------------------------
(* BenchmarkAnalyzer.generate_report: the performance targets *)

targets ==
    [target_fps |-> 60,
     warning_fps |-> 30,
     critical_fps |-> 15,
     target_frame_time_ms |-> Hundredths(16, 67),
     warning_frame_time_ms |-> Hundredths(33, 33),
     critical_frame_time_ms |-> Hundredths(66, 67),
     gpu_culling_budget_ms |-> Hundredths(0, 25),
     batch_processing_budget_ms |-> Hundredths(2, 50),
     lod_update_budget_ms |-> Hundredths(1, 0),
     streaming_budget_ms |-> Hundredths(1, 50)]

---------------------------------------------------------------------------
(* BenchmarkAnalyzer.assess_performance *)

\* fraction <= integer, fraction >= integer (den > 0)
FracLe(q, n) == q.num <= n * q.den
FracGe(q, n) == q.num >= n * q.den

\* the first comparison written < instead of <=
frame_time_assessment_strict(analysis, tg) ==
    LET avg_frame_time == analysis.avg_frame_time_ms
    IN  IF ~FracGe(avg_frame_time, tg.target_frame_time_ms) THEN "Frame time: EXCELLENT"
        ELSE IF FracLe(avg_frame_time, tg.warning_frame_time_ms) THEN "Frame time: ACCEPTABLE"
        ELSE "Frame time: POOR"

frame_time_assessment(analysis, tg) ==
    LET avg_frame_time == analysis.avg_frame_time_ms
    IN  IF FracLe(avg_frame_time, tg.target_frame_time_ms) THEN "Frame time: EXCELLENT"
        ELSE IF FracLe(avg_frame_time, tg.warning_frame_time_ms) THEN "Frame time: ACCEPTABLE"
        ELSE "Frame time: POOR"

fps_assessment(analysis, tg) ==
    LET avg_fps == analysis.avg_fps
    IN  IF FracGe(avg_fps, tg.target_fps) THEN "FPS: EXCELLENT"
        ELSE IF FracGe(avg_fps, tg.warning_fps) THEN "FPS: ACCEPTABLE"
        ELSE "FPS: POOR"

gpu_culling_assessment(analysis, tg) ==
    LET gpu_time == analysis.gpu_culling_time_ms
    IN  IF gpu_time <= tg.gpu_culling_budget_ms THEN "GPU Culling: WITHIN BUDGET"
        ELSE "GPU Culling: OVER BUDGET"

batch_processing_assessment(analysis, tg) ==
    LET batch_time == analysis.batch_processing_time_ms
    IN  IF batch_time <= tg.batch_processing_budget_ms THEN "Batch Processing: WITHIN BUDGET"
        ELSE "Batch Processing: OVER BUDGET"

lod_update_assessment(analysis, tg) ==
    LET lod_time == analysis.lod_update_time_ms
    IN  IF lod_time <= tg.lod_update_budget_ms THEN "LOD Updates: WITHIN BUDGET"
        ELSE "LOD Updates: OVER BUDGET"

streaming_assessment(analysis, tg) ==
    LET streaming_time == analysis.streaming_time_ms
    IN  IF streaming_time <= tg.streaming_budget_ms THEN "Streaming: WITHIN BUDGET"
        ELSE "Streaming: OVER BUDGET"

\* the lines assess_performance prints, in the order it appends them
assess_performance(analysis, tg) ==
    LET assessments ==
            <<frame_time_assessment(analysis, tg),
              fps_assessment(analysis, tg),
              gpu_culling_assessment(analysis, tg),
              batch_processing_assessment(analysis, tg),
              lod_update_assessment(analysis, tg),
              streaming_assessment(analysis, tg)>>
    IN  [i \in 1..Len(assessments) |-> <<"assessment", assessments[i]>>]

---------------------------------------------------------------------------
(* The results directory *)

SummaryName == "benchmark_summary.json"

BenchmarkNames == {"benchmark_a.json", "benchmark_b.json", "benchmark_c.json"}

\* every name the directory may hold; baseline.json is not a benchmark file
Names == BenchmarkNames \cup {SummaryName, "baseline.json"}

\* the characters of a file name
Stem == <<"b", "e", "n", "c", "h", "m", "a", "r", "k", "_">>
DotJson == <<".", "j", "s", "o", "n">>
Spell(name) ==
    CASE name = "benchmark_a.json" -> Stem \o <<"a">> \o DotJson
      [] name = "benchmark_b.json" -> Stem \o <<"b">> \o DotJson
      [] name = "benchmark_c.json" -> Stem \o <<"c">> \o DotJson
      [] name = "benchmark_summary.json" ->
            Stem \o <<"s", "u", "m", "m", "a", "r", "y">> \o DotJson
      [] name = "baseline.json" -> <<"b", "a", "s", "e", "l", "i", "n", "e">> \o DotJson

\* the pattern "benchmark_*.json": what precedes and what follows the star
PatternPrefix == <<"b", "e", "n", "c", "h", "m", "a", "r", "k", "_">>
PatternSuffix == <<".", "j", "s", "o", "n">>

\* fnmatch(name, "benchmark_*.json")
fnmatch(name) ==
    LET c == Spell(name)
        n == Len(c)
    IN  /\ n >= Len(PatternPrefix) + Len(PatternSuffix)
        /\ SubSeq(c, 1, Len(PatternPrefix)) = PatternPrefix
        /\ SubSeq(c, n - Len(PatternSuffix) + 1, n) = PatternSuffix

\* os.path.join(dir, name) and os.path.basename(path)
join(dir, name) == <<dir, name>>
basename(path) == path[2]

\* os.path.exists(results_dir): one directory exists
exists(path) == path = "results"

\* file contents
Absent == [exists |-> FALSE, readable |-> FALSE, json |-> "none", value |-> EmptyDict]
Unreadable == [exists |-> TRUE, readable |-> FALSE, json |-> "none", value |-> EmptyDict]
Malformed == [exists |-> TRUE, readable |-> TRUE, json |-> "invalid", value |-> EmptyDict]
JsonArray == [exists |-> TRUE, readable |-> TRUE, json |-> "array", value |-> EmptyDict]
JsonObject(d) == [exists |-> TRUE, readable |-> TRUE, json |-> "object", value |-> d]

\* result documents a producer may have written
DocCity ==
    [scene |-> "city",
     metrics |-> [frame_times |-> <<1400, 1000, 1200>>,
                  gpu_culling_time_ms |-> 20,
                  batch_processing_time_ms |-> 300,
                  lod_update_time_ms |-> 100,
                  streaming_time_ms |-> 151,
                  visible_instances |-> 1500,
                  culled_instances |-> 8500,
                  batch_count |-> 12,
                  memory_usage_mb |-> 512]]
DocBare == [metrics |-> [frame_times |-> <<5000>>]]
DocNoMetrics == [scene |-> "menu"]
DocEmptyFrames == [scene |-> "forest", metrics |-> [frame_times |-> <<>>, batch_count |-> 3]]
DocNoFrames == [metrics |-> [gpu_culling_time_ms |-> 10]]

Content(i) ==
    CASE i = 0 -> Absent
      [] i = 1 -> Unreadable
      [] i = 2 -> Malformed
      [] i = 3 -> JsonArray
      [] i = 4 -> JsonObject(DocCity)
      [] i = 5 -> JsonObject(DocBare)
      [] i = 6 -> JsonObject(DocNoMetrics)
      [] i = 7 -> JsonObject(DocEmptyFrames)
      [] i = 8 -> JsonObject(DocNoFrames)

ContentIds == 0..8

\* the orders in which a directory holding the names S may be listed
Orderings(S) ==
    {p \in [1..Cardinality(S) -> S] : \A a \in S : \E i \in DOMAIN p : p[i] = a}

\* Position of a name in a listing
IndexOf(p, a) == CHOOSE i \in DOMAIN p : p[i] = a

\* The listing orders tried.  The three benchmark files take every content
\* independently, so listing them a, b, c loses no case; baseline.json never
\* matches the pattern, so its place does not matter.  The place of the
\* summary file among them is free.
ListingOrders ==
    {p \in Orderings(Names) :
        /\ p[1] = "baseline.json"
        /\ IndexOf(p, "benchmark_a.json") < IndexOf(p, "benchmark_b.json")
        /\ IndexOf(p, "benchmark_b.json") < IndexOf(p, "benchmark_c.json")}

---------------------------------------------------------------------------
(* BenchmarkAnalyzer.load_results *)

\* glob.glob(pattern): the matching names, in the directory's listing order
glob(dir, directory, order) ==
    LET matching == SelectSeq(order, LAMBDA n : directory[n].exists /\ fnmatch(n))
    IN  [i \in 1..Len(matching) |-> join(dir, matching[i])]

\* the body of the try block for one file: what it appends, or what it raises
load_one(directory, file) ==
    LET content == directory[basename(file)]
    IN  IF ~content.readable THEN [ok |-> FALSE, error |-> "OSError", data |-> EmptyDict]
        ELSE IF content.json = "invalid"
            THEN [ok |-> FALSE, error |-> "JSONDecodeError", data |-> EmptyDict]
        ELSE IF content.json # "object"
            THEN [ok |-> FALSE, error |-> "TypeError", data |-> EmptyDict]
        ELSE [ok |-> TRUE, error |-> "",
              data |-> SetItem(content.value, "file", basename(file))]

\* the loop stops at the first exception
RECURSIVE load_loop_abort(_, _, _, _)
load_loop_abort(directory, todo, results, out) ==
    IF todo = <<>> THEN [results |-> results, out |-> out]
    ELSE LET r == load_one(directory, Head(todo))
         IN  IF r.ok
             THEN load_loop_abort(directory, Tail(todo), Append(results, r.data), out)
             ELSE [results |-> results,
                   out |-> Append(out, <<"Error loading", <<Head(todo), r.error>>>>)]

\* for file in files: try ... except Exception as e: print(...)
RECURSIVE load_loop(_, _, _, _)
load_loop(directory, todo, results, out) ==
    IF todo = <<>> THEN [results |-> results, out |-> out]
    ELSE LET r == load_one(directory, Head(todo))
         IN  IF r.ok
             THEN load_loop(directory, Tail(todo), Append(results, r.data), out)
             ELSE load_loop(directory, Tail(todo), results,
                            Append(out, <<"Error loading", <<Head(todo), r.error>>>>))

---------------------------------------------------------------------------
(* BenchmarkAnalyzer.generate_report *)

report_header(results_dir, results, now) ==
    << <<"=== Amp Game Engine Benchmark Report ===", "">>,
       <<"Generated", now>>,
       <<"Results Directory", results_dir>>,
       <<"Total Benchmarks", Len(results)>>,
       <<"", "">> >>

\* lines 112-153: the block printed for one analysed record
scene_block(result, analysis) ==
    << <<"=== Scene", Get(result, "scene", "unknown")>>,
       <<"File", result["file"]>>,
       <<"Frames", analysis.frame_count>>,
       <<"", "">>,
       <<"Frame Time Analysis:", "">>,
       <<"  Average", analysis.avg_frame_time_ms>>,
       <<"  P95", analysis.p95_frame_time_ms>>,
       <<"  P99", analysis.p99_frame_time_ms>>,
       <<"  Min", analysis.min_frame_time_ms>>,
       <<"  Max", analysis.max_frame_time_ms>>,
       <<"", "">>,
       <<"FPS Analysis:", "">>,
       <<"  Average FPS", analysis.avg_fps>>,
       <<"  Minimum FPS", analysis.min_fps>>,
       <<"", "">>,
       <<"System Performance:", "">>,
       <<"  GPU Culling", analysis.gpu_culling_time_ms>>,
       <<"  Batch Processing", analysis.batch_processing_time_ms>>,
       <<"  LOD Updates", analysis.lod_update_time_ms>>,
       <<"  Streaming", analysis.streaming_time_ms>>,
       <<"", "">>,
       <<"Resource Usage:", "">>,
       <<"  Visible Instances", analysis.visible_instances>>,
       <<"  Culled Instances", analysis.culled_instances>>,
       <<"  Batch Count", analysis.batch_count>>,
       <<"  Memory Usage", analysis.memory_usage_mb>>,
       <<"", "">>,
       <<"Performance Assessment:", "">> >>
    \o assess_performance(analysis, targets)
    \o << <<"", "">>, <<"------------------------------------------------------------", "">>,
          <<"", "">> >>

\* for result in self.results: ... ; raised is TRUE when analyze_performance raised
RECURSIVE report_loop(_, _)
report_loop(todo, out) ==
    IF todo = <<>> THEN [out |-> out, raised |-> FALSE]
    ELSE LET analysis == analyze_performance(Head(todo))
         IN  IF Raised(analysis) THEN [out |-> out, raised |-> TRUE]
             ELSE IF ~Truthy(analysis) THEN report_loop(Tail(todo), out)
             ELSE report_loop(Tail(todo), out \o scene_block(Head(todo), analysis))

\* the early return left out
generate_report_no_return(results_dir, results, now) ==
    IF results = <<>>
    THEN [out |-> <<<<"No benchmark results found", "">>>>
                  \o report_header(results_dir, results, now),
          raised |-> FALSE]
    ELSE report_loop(results, report_header(results_dir, results, now))

\* what generate_report prints
generate_report(results_dir, results, now) ==
    IF results = <<>>
    THEN [out |-> <<<<"No benchmark results found", "">>>>, raised |-> FALSE]
    ELSE report_loop(results, report_header(results_dir, results, now))

---------------------------------------------------------------------------
(* BenchmarkAnalyzer.save_summary *)

\* every record appended, analysed or not
RECURSIVE summary_benchmarks_unfiltered(_)
summary_benchmarks_unfiltered(todo) ==
    IF todo = <<>> THEN [benchmarks |-> <<>>, raised |-> FALSE]
    ELSE LET analysis == analyze_performance(Head(todo))
             rest == summary_benchmarks_unfiltered(Tail(todo))
         IN  [benchmarks |-> <<[scene |-> Get(Head(todo), "scene", "unknown"),
                                 file |-> Head(todo)["file"],
                                 analysis |-> analysis]>> \o rest.benchmarks,
              raised |-> FALSE]

\* lines 217-224: the entries of summary['benchmarks']
RECURSIVE summary_benchmarks(_)
summary_benchmarks(todo) ==
    IF todo = <<>> THEN [benchmarks |-> <<>>, raised |-> FALSE]
    ELSE LET analysis == analyze_performance(Head(todo))
             rest == summary_benchmarks(Tail(todo))
         IN  IF Raised(analysis) THEN [benchmarks |-> <<>>, raised |-> TRUE]
             ELSE IF ~Truthy(analysis) THEN rest
             ELSE [benchmarks |-> <<[scene |-> Get(Head(todo), "scene", "unknown"),
                                      file |-> Head(todo)["file"],
                                      analysis |-> analysis]>> \o rest.benchmarks,
                   raised |-> rest.raised]

\* benchmark_count counting the analysed records only
summary_document_counting_entries(results_dir, results, now) ==
    [timestamp |-> now,
     results_dir |-> results_dir,
     benchmark_count |-> Len(summary_benchmarks(results).benchmarks),
     benchmarks |-> summary_benchmarks(results).benchmarks]

\* the summary dictionary save_summary dumps
summary_document(results_dir, results, now) ==
    [timestamp |-> now,
     results_dir |-> results_dir,
     benchmark_count |-> Len(results),
     benchmarks |-> summary_benchmarks(results).benchmarks]

---------------------------------------------------------------------------
(* main: one process per start of the tool *)

\* sys.argv of a start
ArgVectors ==
    { <<"generate_benchmark_report.py">>,
      <<"generate_benchmark_report.py", "results">>,
      <<"generate_benchmark_report.py", "missing">>,
      <<"generate_benchmark_report.py", "results", "extra">> }

NoAnalyzer == [results_dir |-> "", results |-> <<>>]

Stopped == pc \in {"idle", "done", "exited", "crashed"}

AnalysisVarsUnchanged == UNCHANGED <<arg, ret, step>>

\* len(sys.argv) != 2: usage, exit 1
MainUsage(argv) ==
    /\ Stopped /\ runs < MaxRuns
    /\ Len(argv) # 2
    /\ stdout' = <<<<"Usage: python3 generate_benchmark_report.py <results_directory>", "">>>>
    /\ exit_code' = 1
    /\ pc' = "exited"
    /\ analyzer' = NoAnalyzer
    /\ files' = <<>>
    /\ runs' = runs + 1
    /\ clock' = clock + 1
    /\ UNCHANGED <<fs, dir_order>>
    /\ AnalysisVarsUnchanged

\* not os.path.exists(results_dir): message, exit 1
MainNoDirectory(argv) ==
    /\ Stopped /\ runs < MaxRuns
    /\ Len(argv) = 2
    /\ ~exists(argv[2])
    /\ stdout' = <<<<"Results directory does not exist", argv[2]>>>>
    /\ exit_code' = 1
    /\ pc' = "exited"
    /\ analyzer' = NoAnalyzer
    /\ files' = <<>>
    /\ runs' = runs + 1
    /\ clock' = clock + 1
    /\ UNCHANGED <<fs, dir_order>>
    /\ AnalysisVarsUnchanged

\* analyzer = BenchmarkAnalyzer(results_dir)
MainStart(argv) ==
    /\ Stopped /\ runs < MaxRuns
    /\ Len(argv) = 2
    /\ exists(argv[2])
    /\ analyzer' = [results_dir |-> argv[2], results |-> <<>>]
    /\ stdout' = <<>>
    /\ files' = <<>>
    /\ pc' = "load"
    /\ runs' = runs + 1
    /\ clock' = clock + 1
    /\ UNCHANGED <<fs, dir_order, exit_code>>
    /\ AnalysisVarsUnchanged

\* analyzer.load_results()
LoadResults ==
    /\ pc = "load"
    /\ LET listed == glob(analyzer.results_dir, fs, dir_order)
           loaded == load_loop(fs, listed, analyzer.results, stdout)
       IN  /\ files' = listed
           /\ analyzer' = [analyzer EXCEPT !.results = loaded.results]
           /\ stdout' = loaded.out
    /\ pc' = "report"
    /\ UNCHANGED <<fs, dir_order, exit_code, clock, runs>>
    /\ AnalysisVarsUnchanged

\* analyzer.generate_report()
GenerateReport ==
    /\ pc = "report"
    /\ LET printed == generate_report(analyzer.results_dir, analyzer.results, clock)
       IN  /\ stdout' = stdout \o printed.out
           /\ pc' = IF printed.raised THEN "crashed" ELSE "save"
           /\ exit_code' = IF printed.raised THEN 1 ELSE exit_code
    /\ UNCHANGED <<fs, dir_order, analyzer, files, clock, runs>>
    /\ AnalysisVarsUnchanged

\* analyzer.save_summary(), then the process ends with status 0
SaveSummary ==
    /\ pc = "save"
    /\ LET raised == summary_benchmarks(analyzer.results).raised
           summary == summary_document(analyzer.results_dir, analyzer.results, clock)
           summary_file == join(analyzer.results_dir, SummaryName)
       IN  IF raised
           THEN /\ pc' = "crashed"
                /\ exit_code' = 1
                /\ UNCHANGED <<fs, stdout>>
           ELSE /\ fs' = [fs EXCEPT ![basename(summary_file)] = JsonObject(summary)]
                /\ stdout' = Append(stdout, <<"Summary saved to", summary_file>>)
                /\ pc' = "done"
                /\ exit_code' = 0
    /\ UNCHANGED <<dir_order, analyzer, files, clock, runs>>
    /\ AnalysisVarsUnchanged

Init ==
    /\ \E c \in [BenchmarkNames -> ContentIds] :
          fs = [n \in Names |->
                    IF n \in BenchmarkNames THEN Content(c[n])
                    ELSE IF n = SummaryName THEN Absent
                    ELSE JsonObject(DocCity)]
    /\ dir_order \in ListingOrders
    /\ pc = "idle"
    /\ analyzer = NoAnalyzer
    /\ files = <<>>
    /\ stdout = <<>>
    /\ exit_code = 0
    /\ clock = 0
    /\ runs = 0
    /\ arg = EmptyDict
    /\ ret = EmptyDict
    /\ step = "off"

Next ==
    \/ \E argv \in ArgVectors : MainUsage(argv)
    \/ \E argv \in ArgVectors : MainNoDirectory(argv)
    \/ \E argv \in ArgVectors : MainStart(argv)
    \/ LoadResults
    \/ GenerateReport
    \/ SaveSummary

Spec == Init /\ [][Next]_vars

---------------------------------------------------------------------------
(* analyze_performance and assess_performance on their own: the inputs *)

\* n frame times b + s * ((i * k) mod n): ascending, descending, constant or
\* scattered, with repeats when k and n share a factor
Pattern(n, k, b, s) == [i \in 1..n |-> b + s * ((i * k) % n)]

PatternInputs ==
    {Pattern(n, k, b, s) : n \in 1..MaxFrames, k \in {1, 7}, b \in {0, 1000}, s \in {-3, 0, 20}}

\* frame times at the thresholds of the assessment, and the worked example
ThresholdInputs ==
    { <<1667>>, <<1668>>, <<3333>>, <<3334>>,
      <<1666, 1667, 1667>>, <<3333, 3333, 3334>>,
      <<0, 0>>, <<-100, 100>>, <<-200>>,
      <<1000, 1200, 1400, 1600, 1800, 2000, 2200, 2400, 2600, 2800>> }

SubsystemKeys ==
    {"gpu_culling_time_ms", "batch_processing_time_ms", "lod_update_time_ms", "streaming_time_ms"}

Budget(k) ==
    CASE k = "gpu_culling_time_ms" -> targets.gpu_culling_budget_ms
      [] k = "batch_processing_time_ms" -> targets.batch_processing_budget_ms
      [] k = "lod_update_time_ms" -> targets.lod_update_budget_ms
      [] k = "streaming_time_ms" -> targets.streaming_budget_ms

\* a result record: the keys in present at their budget, those in over one
\* hundredth above it, the others missing
MakeResult(frame_times, present, over) ==
    [metrics |->
        [k \in present \cup {"frame_times"} |->
            IF k = "frame_times" THEN frame_times
            ELSE Budget(k) + (IF k \in over THEN 1 ELSE 0)]]

AnalyzeInputs ==
    {MakeResult(ft, present, over) :
        ft \in ThresholdInputs, present \in SUBSET SubsystemKeys, over \in SUBSET SubsystemKeys}
    \cup {MakeResult(ft, {}, {}) : ft \in PatternInputs}
    \cup {DocNoMetrics, DocEmptyFrames, DocNoFrames}

PipelineVarsUnchanged ==
    UNCHANGED <<fs, dir_order, pc, analyzer, files, exit_code, clock, runs>>

\* analysis = self.analyze_performance(result)
Analyze ==
    /\ step = "input"
    /\ ret' = analyze_performance(arg)
    /\ step' = "analyzed"
    /\ UNCHANGED <<arg, stdout>>
    /\ PipelineVarsUnchanged

\* self.assess_performance(analysis, targets), as generate_report calls it
Assess ==
    /\ step = "analyzed"
    /\ Truthy(ret) /\ ~Raised(ret)
    /\ stdout' = assess_performance(ret, targets)
    /\ step' = "assessed"
    /\ UNCHANGED <<arg, ret>>
    /\ PipelineVarsUnchanged

AnalyzeInit ==
    /\ fs = [n \in Names |-> Absent]
    /\ dir_order = CHOOSE p \in ListingOrders : TRUE
    /\ pc = "idle"
    /\ analyzer = NoAnalyzer
    /\ files = <<>>
    /\ stdout = <<>>
    /\ exit_code = 0
    /\ clock = 0
    /\ runs = 0
    /\ arg \in AnalyzeInputs
    /\ ret = EmptyDict
    /\ step = "input"

AnalyzeNext == Analyze \/ Assess

AnalyzeSpec == AnalyzeInit /\ [][AnalyzeNext]_vars

---------------------------------------------------------------------------
(* Properties of analyze_performance and assess_performance (AnalyzeSpec) *)

\* the frame times of a record, empty when metrics or frame_times is missing
FrameTimesOf(r) ==
    IF "metrics" \in DOMAIN r /\ "frame_times" \in DOMAIN r["metrics"]
    THEN r["metrics"]["frame_times"] ELSE <<>>

\* v stands at 0-based index k of xs sorted ascending: at most k samples lie
\* strictly below v and more than k lie at or below it
AtSortedIndex(xs, v, k) ==
    /\ Cardinality({i \in 1..Len(xs) : xs[i] < v}) <= k
    /\ k < Cardinality({i \in 1..Len(xs) : xs[i] <= v})

IsAscending(xs) == \A i \in 1..(Len(xs) - 1) : xs[i] <= xs[i + 1]

WorkedExample == <<1000, 1200, 1400, 1600, 1800, 2000, 2200, 2400, 2600, 2800>>

\* C4: for every non-empty frame_times of length N, p95_frame_time_ms is the
\* sample at 0-based index floor(0.95 N) of the ascending order and
\* p99_frame_time_ms the sample at index floor(0.99 N); for the worked example
\* 10, 12, ..., 28 ms both are 28 ms.
C4_PercentilesAtTruncatedRank ==
    (step # "input" /\ FrameTimesOf(arg) # <<>>) =>
        LET xs == FrameTimesOf(arg)
            N == Len(xs)
        IN  /\ Truthy(ret) /\ ~Raised(ret)
            /\ AtSortedIndex(xs, ret.p95_frame_time_ms, (95 * N) \div 100)
            /\ AtSortedIndex(xs, ret.p99_frame_time_ms, (99 * N) \div 100)
            /\ xs = WorkedExample =>
                  ret.p95_frame_time_ms = 2800 /\ ret.p99_frame_time_ms = 2800

\* 101 scattered samples: both percentiles differ from each other and from the maximum
C4_Witness ==
    /\ step = "analyzed" /\ Truthy(ret)
    /\ Len(FrameTimesOf(arg)) = 101
    /\ ~IsAscending(FrameTimesOf(arg))
    /\ ret.p95_frame_time_ms = 1900
    /\ ret.p99_frame_time_ms = 1980
    /\ ret.max_frame_time_ms = 2000

\* C5: every non-empty analysis record has
\* min_frame_time_ms <= p95_frame_time_ms <= p99_frame_time_ms <= max_frame_time_ms,
\* whatever the order of the input.
C5_PercentilesOrdered ==
    (step # "input" /\ Truthy(ret)) =>
        /\ ~Raised(ret)
        /\ ret.min_frame_time_ms <= ret.p95_frame_time_ms
        /\ ret.p95_frame_time_ms <= ret.p99_frame_time_ms
        /\ ret.p99_frame_time_ms <= ret.max_frame_time_ms

\* an input given in no order, where the four values are strictly apart
C5_Witness ==
    /\ step = "assessed"
    /\ ~IsAscending(FrameTimesOf(arg))
    /\ ret.min_frame_time_ms < ret.p95_frame_time_ms
    /\ ret.p95_frame_time_ms < ret.p99_frame_time_ms
    /\ ret.p99_frame_time_ms < ret.max_frame_time_ms
    /\ FrameTimesOf(arg)[1] > FrameTimesOf(arg)[2]

\* C7: for every non-empty frame_times analyze_performance raises no division
\* by zero; avg_fps is 1000 / avg_frame_time_ms when the average is positive
\* and 0 otherwise, min_fps is 1000 / max_frame_time_ms when the maximum is
\* positive and 0 otherwise.
C7_FpsGuarded ==
    (step # "input" /\ FrameTimesOf(arg) # <<>>) =>
        /\ Truthy(ret) /\ ~Raised(ret)
        /\ LET avg == ret.avg_frame_time_ms
               mx == ret.max_frame_time_ms
           IN  /\ avg.den > 0
               /\ avg.num > 0 =>
                     /\ ret.avg_fps.den = avg.num
                     /\ ret.avg_fps.num = 1000 * 100 * avg.den
               /\ avg.num <= 0 => ret.avg_fps.num = 0 /\ ret.avg_fps.den # 0
               /\ mx > 0 => ret.min_fps.den = mx /\ ret.min_fps.num = 1000 * 100
               /\ mx <= 0 => ret.min_fps.num = 0 /\ ret.min_fps.den # 0

\* frame times -1 ms and 1 ms: the average is 0 and the maximum is positive
C7_Witness ==
    /\ step = "analyzed" /\ Truthy(ret) /\ ~Raised(ret)
    /\ FrameTimesOf(arg) = <<-100, 100>>
    /\ ret.avg_frame_time_ms.num = 0
    /\ ret.avg_fps.num = 0
    /\ ret.min_fps.num = 1000 * ret.min_fps.den

\* C9: for every non-empty frame_times of length N the two indices satisfy
\* 0 <= floor(0.95 N) <= floor(0.99 N) <= N - 1, so neither lookup in the
\* sorted copy reads past its end.
C9_IndicesInRange ==
    (step # "input" /\ FrameTimesOf(arg) # <<>>) =>
        LET sorted_times == sorted(FrameTimesOf(arg))
            N == Len(FrameTimesOf(arg))
        IN  /\ Len(sorted_times) = N
            /\ 0 <= p95_index(sorted_times)
            /\ p95_index(sorted_times) <= p99_index(sorted_times)
            /\ p99_index(sorted_times) <= N - 1
            /\ ~Raised(ret)

\* 100 samples: 0.99 N is integral and the index is the last one
C9_Witness ==
    /\ step = "analyzed" /\ Truthy(ret) /\ ~Raised(ret)
    /\ Len(FrameTimesOf(arg)) = 100
    /\ p95_index(sorted(FrameTimesOf(arg))) = 95
    /\ p99_index(sorted(FrameTimesOf(arg))) = 99

\* C6: assess_performance emits six outcomes in the order frame time, FPS, GPU
\* culling, batch processing, LOD updates, streaming.  Frame time is EXCELLENT
\* iff avg <= 16.67, ACCEPTABLE iff 16.67 < avg <= 33.33, POOR otherwise; FPS
\* is EXCELLENT iff avg_fps >= 60, ACCEPTABLE iff 30 <= avg_fps < 60, POOR
\* otherwise; a subsystem is WITHIN BUDGET iff its time is <= 0.25, 2.5, 1.0,
\* 1.5 ms respectively, OVER BUDGET otherwise.  Each outcome is decided by its
\* own field alone.
C6_AssessmentTiers ==
    step = "assessed" =>
        LET avg == ret.avg_frame_time_ms
            fps == ret.avg_fps
            line(i) == stdout[i][2]
        IN  /\ Len(stdout) = 6
            /\ \A i \in 1..6 : stdout[i][1] = "assessment"
            /\ line(1) \in {"Frame time: EXCELLENT", "Frame time: ACCEPTABLE", "Frame time: POOR"}
            /\ line(1) = "Frame time: EXCELLENT" <=> avg.num <= 1667 * avg.den
            /\ line(1) = "Frame time: ACCEPTABLE" <=>
                   (1667 * avg.den < avg.num /\ avg.num <= 3333 * avg.den)
            /\ line(2) \in {"FPS: EXCELLENT", "FPS: ACCEPTABLE", "FPS: POOR"}
            /\ line(2) = "FPS: EXCELLENT" <=> fps.num >= 60 * fps.den
            /\ line(2) = "FPS: ACCEPTABLE" <=>
                   (30 * fps.den <= fps.num /\ fps.num < 60 * fps.den)
            /\ line(3) = IF ret.gpu_culling_time_ms <= 25
                         THEN "GPU Culling: WITHIN BUDGET" ELSE "GPU Culling: OVER BUDGET"
            /\ line(4) = IF ret.batch_processing_time_ms <= 250
                         THEN "Batch Processing: WITHIN BUDGET"
                         ELSE "Batch Processing: OVER BUDGET"
            /\ line(5) = IF ret.lod_update_time_ms <= 100
                         THEN "LOD Updates: WITHIN BUDGET" ELSE "LOD Updates: OVER BUDGET"
            /\ line(6) = IF ret.streaming_time_ms <= 150
                         THEN "Streaming: WITHIN BUDGET" ELSE "Streaming: OVER BUDGET"

\* an average of exactly 16.67 ms: EXCELLENT frame time with an FPS below 60,
\* two subsystems over budget and two within
C6_Witness ==
    /\ step = "assessed"
    /\ FrameTimesOf(arg) = <<1667>>
    /\ stdout = << <<"assessment", "Frame time: EXCELLENT">>,
                   <<"assessment", "FPS: ACCEPTABLE">>,
                   <<"assessment", "GPU Culling: OVER BUDGET">>,
                   <<"assessment", "Batch Processing: WITHIN BUDGET">>,
                   <<"assessment", "LOD Updates: OVER BUDGET">>,
                   <<"assessment", "Streaming: WITHIN BUDGET">> >>

---------------------------------------------------------------------------
(* Properties of the tool as a whole (Spec) *)

\* the try block of load_results yields a record for this file: it opens and
\* its text is a JSON object.  (Text that is valid JSON but no object is
\* rejected inside the same try block and reported like any other failure.)
Parses(file) ==
    fs[basename(file)].readable /\ fs[basename(file)].json = "object"

Fails(file) == ~Parses(file)

IsErrorLine(l) == l[1] = "Error loading"

NoFrames(r) == FrameTimesOf(r) = <<>>

HasFrames(r) == FrameTimesOf(r) # <<>>

\* the lines of the current process that print a given label
Printed(label) == SelectSeq(stdout, LAMBDA l : l[1] = label)

WrittenSummary == fs[SummaryName].value

C3_EmptyAnalysisSkipped ==
    /\ pc # "crashed"
    /\ pc \in {"report", "save", "done"} =>
          \A i \in 1..Len(analyzer.results) :
              NoFrames(analyzer.results[i]) <=> ~Truthy(analyze_performance(analyzer.results[i]))
    /\ pc \in {"save", "done"} =>
          LET analysed == SelectSeq(analyzer.results, HasFrames)
              scenes == Printed("=== Scene")
              blocks == Printed("File")
          IN  /\ Len(scenes) = Len(analysed)
              /\ Len(blocks) = Len(analysed)
              /\ \A i \in 1..Len(analysed) :
                    /\ blocks[i][2] = analysed[i]["file"]
                    /\ scenes[i][2] = Get(analysed[i], "scene", "unknown")
    /\ pc = "done" =>
          LET analysed == SelectSeq(analyzer.results, HasFrames)
              entries == WrittenSummary["benchmarks"]
          IN  /\ Len(entries) = Len(analysed)
              /\ \A i \in 1..Len(analysed) : entries[i].file = analysed[i]["file"]

\* records without frame times before and after one that has them
C3_Witness ==
    /\ pc = "done"
    /\ Len(analyzer.results) = 3
    /\ "metrics" \notin DOMAIN analyzer.results[1]
    /\ HasFrames(analyzer.results[2])
    /\ "metrics" \in DOMAIN analyzer.results[3] /\ NoFrames(analyzer.results[3])
    /\ Len(Printed("File")) = 1
    /\ Len(WrittenSummary["benchmarks"]) = 1

\* C10: in the summary save_summary writes, benchmark_count is the number of
\* loaded records (the files that parsed) and 'benchmarks' holds one entry per
\* loaded record with a non-empty analysis, in load order; so the number of
\* entries is <= benchmark_count, with equality exactly when every loaded
\* record has a non-empty frame_times.
C10_SummaryCounts ==
    pc = "done" =>
        LET results == analyzer.results
            analysed == SelectSeq(results, HasFrames)
            entries == WrittenSummary["benchmarks"]
            count == WrittenSummary["benchmark_count"]
        IN  /\ fs[SummaryName].exists /\ fs[SummaryName].json = "object"
            /\ count = Len(results)
            /\ count = Len(SelectSeq(files, Parses))
            /\ Len(entries) = Len(analysed)
            /\ \A i \in 1..Len(analysed) :
                  /\ entries[i].file = analysed[i]["file"]
                  /\ entries[i].scene = Get(analysed[i], "scene", "unknown")
                  /\ Truthy(entries[i].analysis)
                  /\ entries[i].analysis.frame_count = Len(FrameTimesOf(analysed[i]))
            /\ Len(entries) <= count
            /\ Len(entries) = count <=> \A i \in 1..Len(results) : HasFrames(results[i])

\* a second start that loaded the first one's summary beside two analysed files
C10_Witness ==
    /\ pc = "done"
    /\ WrittenSummary["benchmark_count"] = 3
    /\ Len(WrittenSummary["benchmarks"]) = 2
    /\ \E i \in 1..Len(analyzer.results) : analyzer.results[i]["file"] = SummaryName

\* C8: with an empty record collection generate_report prints the notice and
\* nothing else (no header, no scene block) and writes no file; save_summary,
\* which main calls next, still runs and writes benchmark_summary.json.
C8_EmptyReportThenSave ==
    [][ /\ (pc = "report" /\ analyzer.results = <<>>) =>
              /\ stdout' = Append(stdout, <<"No benchmark results found", "">>)
              /\ fs' = fs
              /\ pc' = "save"
        /\ (pc = "save" /\ analyzer.results = <<>>) =>
              /\ pc' = "done"
              /\ fs'[SummaryName].exists
              /\ fs'[SummaryName].value["benchmark_count"] = 0
              /\ fs'[SummaryName].value["benchmarks"] = <<>>
              /\ \A n \in Names \ {SummaryName} : fs'[n] = fs[n] ]_vars

\* three files listed, none loaded: the notice, then the summary
C8_Witness ==
    /\ pc = "done"
    /\ Len(files) = 3
    /\ analyzer.results = <<>>
    /\ Printed("No benchmark results found") # <<>>
    /\ Printed("=== Amp Game Engine Benchmark Report ===") = <<>>
    /\ Printed("Summary saved to") # <<>>
    /\ WrittenSummary["benchmark_count"] = 0

\* C1: two starts in succession on the same directory, nothing else touching
\* it, leave benchmark_summary.json with the same results_dir, benchmark_count
\* and benchmarks (the timestamp apart).  In this model the summary on disk
\* when save_summary runs is always the one the preceding start wrote.
C1_SameSummaryTwice ==
    [][ (pc = "save" /\ fs[SummaryName].exists /\ pc' = "done") =>
            /\ fs'[SummaryName].value["results_dir"] = fs[SummaryName].value["results_dir"]
            /\ fs'[SummaryName].value["benchmark_count"] = fs[SummaryName].value["benchmark_count"]
            /\ fs'[SummaryName].value["benchmarks"] = fs[SummaryName].value["benchmarks"] ]_vars

====
